---------------------------- MODULE Spec2Model ----------------------------
(***************************************************************************)
(* A model of the hypercube viewer (src/index.js): the session state       *)
(* (clock, dimension, rotation speeds, persisted dimension, depth ranges), *)
(* the load script, the frame callback, the key handler and the resize     *)
(* handler, and the pure geometry they call (vert, edges, faces, rotate,   *)
(* translate, toSpace, zDepth).                                            *)
(*                                                                         *)
(* Numbers.  JavaScript numbers are modelled as exact rationals extended   *)
(* with NaN and the two infinities: [n |-> numerator, d |-> denominator]   *)
(* in lowest terms with d > 0; d = 0 is NaN (n = 0), +Infinity (n = 1) or  *)
(* -Infinity (n = -1).  Rounding error and the sign of zero are not        *)
(* modelled.                                                               *)
(*                                                                         *)
(* Angles.  Math.cos and Math.sin are exact on whole quarter turns only,   *)
(* so the rotation speeds are the values the load script can draw that are *)
(* whole multiples of PI/8 rad/s, and the frame timestamps are those for   *)
(* which every angle speed * time / 1000 is a whole number of quarter      *)
(* turns.                                                                  *)
(***************************************************************************)
EXTENDS Integers, Sequences, FiniteSets

VARIABLES
  pc,          \* "load" before the load script has run, "run" afterwards
  t,           \* state.t, milliseconds
  numDims,     \* state.numDims (0 stands for the initial null)
  rotateSpeed, \* state.rotateSpeed, in units of PI/8 radians per second
  storage,     \* localStorage.numDims: [has |-> BOOLEAN, val |-> characters]
  lastTime,    \* lastTime of tick (NoTime stands for undefined)
  zRange,      \* zRange[d].min, zRange[d].max
  ticking,     \* a requestAnimationFrame(tick) callback is pending
  frame,       \* what the last call of draw() did
  firstTime,   \* history: timestamp of the first tick (NoTime before it)
  applied      \* history: per axis pair, the speeds rotate has applied to it

vars == <<pc, t, numDims, rotateSpeed, storage, lastTime, zRange, ticking,
          frame, firstTime, applied>>

---------------------------------------------------------------------------
(* Bounds of the model *)

\* largest number of whole quarter-turn periods a timestamp lies after start
MaxTurns == 1

---------------------------------------------------------------------------
(* Numbers *)

RECURSIVE GCD(_, _)
GCD(a, b) == IF b = 0 THEN a ELSE GCD(b, a % b)

Abs(k) == IF k < 0 THEN -k ELSE k

Sgn(k) == IF k < 0 THEN -1 ELSE IF k > 0 THEN 1 ELSE 0

NaN == [n |-> 0, d |-> 0]

Inf(s) == [n |-> s, d |-> 0]

\* the value undefined of a property that was never written
Undefined == [n |-> 0, d |-> -1]

\* the rational n/d, d # 0, in lowest terms
Q(n, d) ==
  LET g == GCD(Abs(n), Abs(d))
  IN  [n |-> Sgn(d) * (n \div g), d |-> Abs(d) \div g]

I(k) == [n |-> k, d |-> 1]

IsNaN(x) == x.d = 0 /\ x.n = 0

IsFinite(x) == x.d > 0

Neg(x) == [n |-> -(x.n), d |-> x.d]

Add(x, y) ==
  IF IsFinite(x) /\ IsFinite(y) THEN Q(x.n * y.d + y.n * x.d, x.d * y.d)
  ELSE IF IsNaN(x) \/ IsNaN(y) THEN NaN
  ELSE IF IsFinite(y) THEN x
  ELSE IF IsFinite(x) THEN y
  ELSE IF x.n = y.n THEN x ELSE NaN

Sub(x, y) == Add(x, Neg(y))

Mul(x, y) ==
  IF IsFinite(x) /\ IsFinite(y) THEN Q(x.n * y.n, x.d * y.d)
  ELSE IF IsNaN(x) \/ IsNaN(y) THEN NaN
  ELSE IF x.n = 0 \/ y.n = 0 THEN NaN
  ELSE Inf(Sgn(x.n) * Sgn(y.n))

Div(x, y) ==
  IF IsNaN(x) \/ IsNaN(y) THEN NaN
  ELSE IF IsFinite(x) /\ IsFinite(y)
       THEN IF y.n # 0 THEN Q(x.n * y.d, x.d * y.n)
            ELSE IF x.n = 0 THEN NaN ELSE Inf(Sgn(x.n))
  ELSE IF IsFinite(x) THEN I(0)
  ELSE IF IsFinite(y) THEN Inf(x.n * (IF y.n < 0 THEN -1 ELSE 1))
  ELSE NaN

\* x <= y as JavaScript compares numbers: false when either is NaN
Le(x, y) ==
  /\ ~IsNaN(x)
  /\ ~IsNaN(y)
  /\ IF x.d = 0 /\ y.d = 0 THEN x.n <= y.n
     ELSE IF x.d = 0 THEN x.n < 0
     ELSE IF y.d = 0 THEN y.n > 0
     ELSE x.n * y.d <= y.n * x.d

MathMin(x, y) ==
  IF IsNaN(x) \/ IsNaN(y) THEN NaN ELSE IF Le(x, y) THEN x ELSE y

MathMax(x, y) ==
  IF IsNaN(x) \/ IsNaN(y) THEN NaN ELSE IF Le(x, y) THEN y ELSE x

\* 1 << k: the shift count is taken modulo 32 and the result is a 32-bit
\* signed integer
Pow2(k) == IF k % 32 = 31 THEN -2147483647 - 1 ELSE 2^(k % 32)

\* Math.pow(2, d) of an integer d
MathPow2(d) == IF d >= 0 THEN I(2^d) ELSE Q(1, 2^(-d))

\* the last integer i with i < x, x finite: where a loop for (i = 0; i < x;
\* i++) stops
LastBelow(x) == IF x.n % x.d = 0 THEN (x.n \div x.d) - 1 ELSE x.n \div x.d

\* (i >> k) & 1, for i >= 0 and 0 <= k < 31
Bit(i, k) == (i \div Pow2(k)) % 2

\* i ^ (1 << k)
Toggle(i, k) == IF Bit(i, k) = 0 THEN i + Pow2(k) ELSE i - Pow2(k)

\* F(lo) \o F(lo+1) \o ... \o F(hi): what a for loop yields, in order
RECURSIVE ConcatOver(_, _, _)
ConcatOver(F(_), lo, hi) ==
  IF lo > hi THEN << >>
  ELSE IF lo = hi THEN F(lo)
  ELSE ConcatOver(F, lo, (lo + hi) \div 2)
         \o ConcatOver(F, ((lo + hi) \div 2) + 1, hi)

SeqToSet(s) == {s[k] : k \in 1..Len(s)}

---------------------------------------------------------------------------
(* Cube *)

maxDims == 4

\* Math.pow(2, d) of numVerts, d being numDims || state.numDims
numVerts(d) == MathPow2(d)

\* the loop bound of vert with an off-by-one: axis d is given a sign too
vert_oneAxisMore(i, d) ==
  [k \in 1..maxDims |->
     IF k - 1 <= d THEN (IF Bit(i, k - 1) = 0 THEN -1 ELSE 1) ELSE 0]

\* vert(i) with state.numDims = d; axis k of the code is element k + 1
vert(i, d) ==
  [k \in 1..maxDims |->
     IF k - 1 < d THEN (IF Bit(i, k - 1) = 0 THEN -1 ELSE 1) ELSE 0]

\* edges() without its test i < j
edges_noOrderTest(d) ==
  ConcatOver(LAMBDA i :
    ConcatOver(LAMBDA a : << <<i, Toggle(i, a)>> >>, 0, d - 1),
    0, LastBelow(numVerts(d)))

\* the pairs edges() yields with state.numDims = d, in the order yielded
edges(d) ==
  ConcatOver(LAMBDA i :
    ConcatOver(LAMBDA a :
      LET j == Toggle(i, a)
      IN  IF i < j THEN << <<i, j>> >> ELSE << >>,
      0, d - 1),
    0, LastBelow(numVerts(d)))

\* faces() with the test i < j && j < k && k < l weakened to i < l
faces_weakTest(d) ==
  ConcatOver(LAMBDA i :
    ConcatOver(LAMBDA a :
      ConcatOver(LAMBDA b :
        LET j == Toggle(i, a)
            k == Toggle(i, b)
            l == Toggle(Toggle(i, a), b)
        IN  IF i < l THEN << <<i, j, l, k>> >> ELSE << >>,
        a + 1, d - 1),
      0, d - 1),
    0, LastBelow(numVerts(d)))

\* the 4-tuples faces() yields with state.numDims = d, in the order yielded
faces(d) ==
  ConcatOver(LAMBDA i :
    ConcatOver(LAMBDA a :
      ConcatOver(LAMBDA b :
        LET j == Toggle(i, a)
            k == Toggle(i, b)
            l == Toggle(Toggle(i, a), b)
        IN  IF i < j /\ j < k /\ k < l THEN << <<i, j, l, k>> >> ELSE << >>,
        a + 1, d - 1),
      0, d - 1),
    0, LastBelow(numVerts(d)))

---------------------------------------------------------------------------
(* Camera projection *)

camDistZ == 2

camDistW == 2

cubeDistZ == Mul(I(camDistZ), Q(5, 2))

cubeDistW == Mul(I(camDistW), Q(5, 2))

toSpace(v) ==
  << Mul(Div(v[1], v[4]), I(camDistW)),
     Mul(Div(v[2], v[4]), I(camDistW)),
     Mul(Div(v[3], v[4]), I(camDistW)) >>

toPlane(v) ==
  << Mul(Div(v[1], v[3]), I(camDistZ)),
     Mul(Div(v[2], v[3]), I(camDistZ)) >>

translate(v) == << v[1], v[2], Add(v[3], cubeDistZ), Add(v[4], cubeDistW) >>

---------------------------------------------------------------------------
(* Rotation *)

\* numRots(d) with d being numDims || state.numDims
numRots(d) == (d * (d - 1)) \div 2

\* milliseconds in which a speed of PI/8 rad/s turns a quarter turn (PI/2)
QuarterTurnMs == 4 * 1000

\* the clock values at which every angle of rotate is a whole quarter turn
ExactAngles(speeds, time) ==
  \A k \in 1..Len(speeds) : (speeds[k] * time) % QuarterTurnMs = 0

\* speed * time / 1000 radians, counted in quarter turns
QuarterTurns(speed, time) == (speed * time) \div QuarterTurnMs

MathCos(q) == I(<<1, 0, -1, 0>>[(q % 4) + 1])

MathSin(q) == I(<<0, 1, 0, -1>>[(q % 4) + 1])

\* Math.max(0, state.t - 100)
rotateTime(now) == IF now - 100 > 0 THEN now - 100 ELSE 0

\* one pass of the inner loop body of rotate on axes i, j
rotateBody(st, i, j, time, speeds) ==
  LET q == QuarterTurns(speeds[st.rotIndex + 1], time)
      a == st.v[i + 1]
      b == st.v[j + 1]
  IN  [v        |-> [st.v EXCEPT
                       ![i + 1] = Sub(Mul(a, MathCos(q)), Mul(b, MathSin(q))),
                       ![j + 1] = Add(Mul(a, MathSin(q)), Mul(b, MathCos(q)))],
       rotIndex |-> st.rotIndex + 1,
       log      |-> Append(st.log, [i |-> i, j |-> j, rotIndex |-> st.rotIndex])]

\* the two nested loops of rotate, from the pass (i, j) on, over axes below d
RECURSIVE rotateLoop(_, _, _, _, _, _)
rotateLoop(st, i, j, d, time, speeds) ==
  IF ~(i < d - 1) THEN st
  ELSE IF ~(j < d) THEN rotateLoop(st, i + 1, i + 2, d, time, speeds)
  ELSE rotateLoop(rotateBody(st, i, j, time, speeds), i, j + 1, d, time, speeds)

\* rotate turning every pair of the maxDims axes, whatever the dimension
rotate_allAxes(v, d, time, speeds) ==
  rotateLoop([v |-> [k \in 1..maxDims |-> I(v[k])], rotIndex |-> 0, log |-> << >>],
             0, 1, maxDims, time, speeds)

\* rotate(v) with state.numDims = d, the clamped clock and state.rotateSpeed:
\* the vector returned, and the log of the planes turned and the indices read
rotate(v, d, time, speeds) ==
  rotateLoop([v |-> [k \in 1..maxDims |-> I(v[k])], rotIndex |-> 0, log |-> << >>],
             0, 1, d, time, speeds)

---------------------------------------------------------------------------
(* Draw *)

mapRange(value, oldmin, oldmax, newmin, newmax) ==
  LET oldrange == Sub(oldmax, oldmin)
      newrange == Sub(newmax, newmin)
  IN  Add(newmin, Mul(Div(Sub(value, oldmin), oldrange), newrange))

Dims == {2, 3, 4}

\* let zRange = {2: {}, 3: {}, 4: {}}
zRangeInit == [d \in Dims |-> [min |-> Undefined, max |-> Undefined]]

\* updateZRange keeping one range for all the dimensions
updateZRange_shared(zr, d, z) ==
  [e \in Dims |->
     [min |-> IF zr[d].min = Undefined THEN z ELSE MathMin(zr[d].min, z),
      max |-> IF zr[d].max = Undefined THEN z ELSE MathMax(zr[d].max, z)]]

\* updateZRange(z) with state.numDims = d: the new zRange
updateZRange(zr, d, z) ==
  [zr EXCEPT ![d] =
     [min |-> IF zr[d].min = Undefined THEN z ELSE MathMin(zr[d].min, z),
      max |-> IF zr[d].max = Undefined THEN z ELSE MathMax(zr[d].max, z)]]

\* zDepth(z): the new zRange and the opacity and thickness returned
zDepth(zr, d, z) ==
  LET zr2 == updateZRange(zr, d, z)
      min == zr2[d].min
      max == zr2[d].max
  IN  [zRange    |-> zr2,
       opacity   |-> mapRange(z, max, min, Q(1, 10), Q(7, 10)),
       thickness |-> mapRange(z, max, min, I(2), I(3))]

count == 10

\* interp(i)[2] of line3d(a, b)
interpZ(a, b, i) == Add(a[3], Mul(Div(Sub(b[3], a[3]), I(count)), I(i)))

\* c[2] and d[2] of line3d(a, b) in pass i - 1 of its loop: the depth that
\* is shaded, and the depth of the far end of the sub-segment
line3dDepths(a, b) ==
  [i \in 1..count |-> [z |-> interpZ(a, b, i - 1), zEnd |-> interpZ(a, b, i)]]

\* the loop of line3d(a, b) from its state st on (st.i the loop variable,
\* st.zRange the ranges, st.samples what was shaded so far), ds being
\* line3dDepths(a, b): per sub-segment, the depth shaded, the depth of its far
\* end, the range after the update and the shade
RECURSIVE line3d(_, _, _)
line3d(st, d, ds) ==
  IF ~(st.i < count) THEN st
  ELSE LET cz == ds[st.i + 1].z
           r  == zDepth(st.zRange, d, cz)
       IN  line3d([i       |-> st.i + 1,
                   zRange  |-> r.zRange,
                   samples |-> Append(st.samples,
                                 [z |-> cz, zEnd |-> ds[st.i + 1].zEnd,
                                  min |-> r.zRange[d].min,
                                  max |-> r.zRange[d].max,
                                  opacity |-> r.opacity,
                                  thickness |-> r.thickness])],
                  d, ds)

\* v(i) of drawCube, with the stages it goes through, toSpace of it (line4d,
\* quad4d) and toPlane of that (quad3d)
vertexPipeline(i, d, time, speeds) ==
  LET v  == vert(i, d)
      r  == rotate(v, d, time, speeds)
      tr == translate(r.v)
  IN  [vert |-> v, rotated |-> r.v, log |-> r.log, translated |-> tr,
       space |-> toSpace(tr), plane |-> toPlane(toSpace(tr))]

\* what one drawCube() computes that does not depend on zRange: the edges and
\* faces yielded, the vertices transformed, and per edge the depths of line3d
geometry(d, time, speeds) ==
  LET tv == [i \in 0..LastBelow(numVerts(d)) |->
              vertexPipeline(i, d, time, speeds)]
      es == edges(d)
  IN  [edges  |-> es,
       faces  |-> faces(d),
       verts  |-> tv,
       depths |-> [k \in 1..Len(es) |->
                     line3dDepths(tv[es[k][1]].space, tv[es[k][2]].space)]]

\* values of Math.random() in the six passes of the load loop, in halves
\* (0 stands for 0, 1 for 0.5)
RandomRuns == { <<0, 1, 0, 1, 0, 1>>, <<1, 1, 0, 0, 1, 0>> }

\* Math.random() * range - range / 2, range = PI / 4, in units of PI / 8
randomSpeed(h) == h - 1

\* state.rotateSpeed after the load loop has drawn h
loadSpeeds(h) == [i \in 1..numRots(maxDims) |-> randomSpeed(h[i])]

\* the values of Math.max(0, state.t - 100) at which every angle is exact
ClockTimes == {k * QuarterTurnMs : k \in 0..MaxTurns}

\* geometry, evaluated once for every dimension, clock and speeds of a session
geometryTable ==
  [d \in Dims, time \in ClockTimes, h \in RandomRuns |->
     geometry(d, time, loadSpeeds(h))]

\* the run of random values that gave the speeds
runOf(speeds) == CHOOSE h \in RandomRuns : loadSpeeds(h) = speeds

\* the first loop of drawCube from its state st on (st.k the next edge of
\* g.edges)
RECURSIVE drawEdges(_, _, _)
drawEdges(st, d, g) ==
  IF st.k > Len(g.edges) THEN st
  ELSE LET r == line3d([i |-> 0, zRange |-> st.zRange, samples |-> st.samples],
                       d, g.depths[st.k])
       IN  drawEdges([k |-> st.k + 1, zRange |-> r.zRange,
                      samples |-> r.samples],
                     d, g)

noFrame ==
  [d |-> 0, threw |-> FALSE, edges |-> << >>, faces |-> << >>,
   verts |-> << >>, samples |-> << >>]

\* draw() with state.numDims = d, state.t = now: the zRange it leaves, what
\* it drew, and whether it threw.  zRange[d] is undefined for d outside
\* {2, 3, 4}, so the first zDepth, for the first edge yielded, throws a
\* TypeError; when edges() and faces() yield nothing, nothing is drawn.
draw(d, now, speeds, zr) ==
  IF d \in Dims
  THEN LET g == geometryTable[d, rotateTime(now), runOf(speeds)]
           r == drawEdges([k |-> 1, zRange |-> zr, samples |-> << >>], d, g)
       IN  [zRange |-> r.zRange,
            frame  |-> [d |-> d, threw |-> FALSE, edges |-> g.edges,
                        faces |-> g.faces, verts |-> g.verts,
                        samples |-> r.samples]]
  ELSE LET es == edges(d)
       IN  [zRange |-> zr,
            frame  |-> [noFrame EXCEPT
                          !.d = d, !.threw = (es # << >>),
                          !.edges = IF es # << >> THEN << es[1] >> ELSE << >>,
                          !.faces = IF es # << >> THEN << >> ELSE faces(d)]]

---------------------------------------------------------------------------
(* Load: the persisted dimension *)

DigitChars == <<"0", "1", "2", "3", "4", "5", "6", "7", "8", "9">>

IsDigit(c) == \E k \in 1..10 : DigitChars[k] = c

DigitVal(c) == (CHOOSE k \in 1..10 : DigitChars[k] = c) - 1

\* the characters parseInt skips at the start of a string (StrWhiteSpaceChar):
\* white space and line terminators.  A character is a one-character string;
\* one that cannot be written in a string of this language is named by its
\* code point.
WhiteSpace ==
  {" ", "\t", "\n", "\r", "\f", "U+000B", "U+00A0", "U+FEFF", "U+2028",
   "U+2029", "U+1680", "U+2000", "U+2001", "U+2002", "U+2003", "U+2004",
   "U+2005", "U+2006", "U+2007", "U+2008", "U+2009", "U+200A", "U+202F",
   "U+205F", "U+3000"}

\* s without its leading white space
RECURSIVE TrimStart(_)
TrimStart(s) ==
  IF s # << >> /\ Head(s) \in WhiteSpace THEN TrimStart(Tail(s)) ELSE s

\* the value of the longest prefix of decimal digits of s, and its length
RECURSIVE DigitPrefix(_, _, _)
DigitPrefix(s, len, val) ==
  IF s # << >> /\ IsDigit(Head(s))
  THEN DigitPrefix(Tail(s), len + 1, 10 * val + DigitVal(Head(s)))
  ELSE [len |-> len, val |-> val]

\* parseInt(s, 10) of a string s
parseInt(s) ==
  LET a    == TrimStart(s)
      neg  == a # << >> /\ Head(a) = "-"
      b    == IF a # << >> /\ Head(a) \in {"-", "+"} THEN Tail(a) ELSE a
      p    == DigitPrefix(b, 0, 0)
  IN  IF p.len = 0 THEN NaN ELSE I(IF neg THEN -(p.val) ELSE p.val)

\* the decimal digits of k >= 0
RECURSIVE Decimal(_)
Decimal(k) ==
  IF k < 10 THEN << DigitChars[k + 1] >>
  ELSE Append(Decimal(k \div 10), DigitChars[(k % 10) + 1])

\* String(k) of an integer k, as the storage keeps a number assigned to it
NumberToString(k) == IF k < 0 THEN << "-" >> \o Decimal(-k) ELSE Decimal(k)

\* localStorage.numDims read as a string: undefined reads "undefined"
storedString(st) ==
  IF st.has THEN st.val ELSE << "u", "n", "d", "e", "f", "i", "n", "e", "d" >>

\* parseInt(localStorage.numDims, 10) || 4
loadedDims(st) ==
  LET x == parseInt(storedString(st))
  IN  IF IsNaN(x) \/ x.n = 0 THEN 4 ELSE x.n

\* setNumDims(d): the new state.numDims and localStorage.numDims
setNumDims(d) ==
  [numDims |-> d, storage |-> [has |-> TRUE, val |-> NumberToString(d)]]

\* the dimension the key handler selects for e.key, 0 when it selects none
keyDims(key) ==
  CASE key = "2" -> 2
    [] key = "3" -> 3
    [] key = "4" -> 4
    [] OTHER -> 0

---------------------------------------------------------------------------
(* Inputs *)

\* what localStorage.numDims may hold at session start: nothing, or a string
Persisted ==
  {[has |-> FALSE, val |-> << >>]}
    \cup {[has |-> TRUE, val |-> s] :
            s \in { << >>, <<"3">>, <<"7">>, <<"0">>, <<"-", "1">>,
                    <<" ", "\t", "3", "x">>, <<"\n", "U+00A0", "2">>, <<"x", "3">> }}

Keys == {"2", "3", "4", "5", "a"}

NoTime == -1

\* timestamps a frame callback may be given
Timestamps == {0, 100} \cup {k * QuarterTurnMs + 200 : k \in 1..MaxTurns}

Planes == {<<i, j>> : i \in 0..(maxDims - 1), j \in 0..(maxDims - 1)}

\* the speeds on record once frame f has been drawn with the speeds given
appliedAfter(ap, f, speeds) ==
  IF f.d \in Dims /\ ~f.threw
  THEN [p \in Planes |->
          ap[p] \cup {speeds[e.rotIndex + 1] :
                        e \in {x \in SeqToSet(f.verts[0].log) :
                                 <<x.i, x.j>> = p}}]
  ELSE ap

---------------------------------------------------------------------------
(* The session *)

Init ==
  /\ pc = "load"
  /\ t = 0
  /\ numDims = 0
  /\ rotateSpeed = << >>
  /\ storage \in Persisted
  /\ lastTime = NoTime
  /\ zRange = zRangeInit
  /\ ticking = FALSE
  /\ frame = noFrame
  /\ firstTime = NoTime
  /\ applied = [p \in Planes |-> {}]

\* the load script: the random speeds, setNumDims of the persisted value,
\* resizeCanvas() and, unless that threw, requestAnimationFrame(tick)
Load ==
  /\ pc = "load"
  /\ \E h \in RandomRuns :
       \E r \in {draw(loadedDims(storage), t, loadSpeeds(h), zRange)} :
         /\ rotateSpeed' = loadSpeeds(h)
         /\ numDims' = setNumDims(loadedDims(storage)).numDims
         /\ storage' = setNumDims(loadedDims(storage)).storage
         /\ zRange' = r.zRange
         /\ frame' = r.frame
         /\ ticking' = ~r.frame.threw
         /\ applied' = appliedAfter(applied, r.frame, loadSpeeds(h))
  /\ pc' = "run"
  /\ UNCHANGED <<t, lastTime, firstTime>>

\* tick(ts) called by the browser with the next timestamp
Tick(ts) ==
  /\ pc = "run"
  /\ ticking
  /\ lastTime # NoTime => ts > lastTime
  /\ LET dt  == IF lastTime # NoTime /\ lastTime # 0 THEN ts - lastTime ELSE 0
         now == t + dt
     IN  /\ ExactAngles(rotateSpeed, rotateTime(now))
         /\ lastTime' = ts
         /\ t' = now
         /\ \E r \in {draw(numDims, now, rotateSpeed, zRange)} :
              /\ zRange' = r.zRange
              /\ frame' = r.frame
              /\ ticking' = ~r.frame.threw
              /\ applied' = appliedAfter(applied, r.frame, rotateSpeed)
  /\ firstTime' = IF firstTime = NoTime THEN ts ELSE firstTime
  /\ UNCHANGED <<pc, numDims, rotateSpeed, storage>>

\* document.body.onkeydown with e.key = key
KeyDown(key) ==
  /\ pc = "run"
  /\ IF keyDims(key) # 0
     THEN /\ numDims' = setNumDims(keyDims(key)).numDims
          /\ storage' = setNumDims(keyDims(key)).storage
     ELSE UNCHANGED <<numDims, storage>>
  /\ UNCHANGED <<pc, t, rotateSpeed, lastTime, zRange, ticking, frame,
                 firstTime, applied>>

\* document.body.onresize: resizeCanvas(), which redraws
Resize ==
  /\ pc = "run"
  /\ \E r \in {draw(numDims, t, rotateSpeed, zRange)} :
       /\ zRange' = r.zRange
       /\ frame' = r.frame
       /\ applied' = appliedAfter(applied, r.frame, rotateSpeed)
  /\ UNCHANGED <<pc, t, numDims, rotateSpeed, storage, lastTime, ticking,
                 firstTime>>

Next ==
  \/ Load
  \/ \E ts \in Timestamps : Tick(ts)
  \/ \E key \in Keys : KeyDown(key)
  \/ Resize

Spec == Init /\ [][Next]_vars

---------------------------------------------------------------------------
(* Properties *)

\* a frame of the cube was drawn to its end, in dimension d
Drawn(d) == frame.d = d /\ ~frame.threw /\ frame.edges # << >>

\* the indices a < d at which the binary digits of i and j differ
DiffBits(i, j, d) == {a \in 0..(d - 1) : (i \div 2^a) % 2 # (j \div 2^a) % 2}

\* C1: in every frame drawn in a dimension d of {2, 3, 4}, edges() yields
\* exactly d * 2^(d-1) pairs <<i, j>>, each with 0 <= i < j < 2^d and i, j
\* differing in exactly one bit below d, none twice, and every such pair is
\* yielded; for d = 2 the set yielded is {(0,1), (0,2), (1,3), (2,3)}.
C1_EdgesExact ==
  \A d \in Dims : Drawn(d) =>
    LET es == frame.edges
    IN  /\ Len(es) = d * 2^(d - 1)
        /\ \A k \in 1..Len(es) :
             /\ 0 <= es[k][1] /\ es[k][1] < es[k][2] /\ es[k][2] < 2^d
             /\ Cardinality(DiffBits(es[k][1], es[k][2], d)) = 1
        /\ \A k, m \in 1..Len(es) : es[k] = es[m] => k = m
        /\ \A i, j \in 0..(2^d - 1) :
             (i < j /\ Cardinality(DiffBits(i, j, d)) = 1)
               => <<i, j>> \in SeqToSet(es)
        /\ d = 2 => SeqToSet(es) = {<<0, 1>>, <<0, 2>>, <<1, 3>>, <<2, 3>>}

\* a frame of the tesseract has been drawn, with its 32 edges
C1_Witness == Drawn(4) /\ Len(frame.edges) = 32

\* C2: in every frame drawn in a dimension d of {2, 3, 4}, numVerts is 2^d
\* and vert(i), for every i in [0, 2^d), is a 4-tuple whose axis k < d holds
\* +1 if bit k of i is 1 and -1 if it is 0, and whose axes k >= d hold 0;
\* exactly d entries are +1 or -1 and distinct indices give distinct tuples;
\* d = 2, i = 3 gives (1,1,0,0) and d = 3, i = 5 gives (1,-1,1,0).
C2_VertsExact ==
  \A d \in Dims : Drawn(d) =>
    LET vs == [i \in DOMAIN frame.verts |-> frame.verts[i].vert]
    IN  /\ numVerts(d) = I(2^d)
        /\ DOMAIN vs = 0..(2^d - 1)
        /\ \A i \in DOMAIN vs :
             /\ Len(vs[i]) = 4
             /\ \A k \in 0..3 :
                  vs[i][k + 1] = IF k >= d THEN 0
                                 ELSE IF (i \div 2^k) % 2 = 1 THEN 1 ELSE -1
             /\ Cardinality({k \in 1..4 : vs[i][k] \in {1, -1}}) = d
        /\ \A i, j \in DOMAIN vs : vs[i] = vs[j] => i = j
        /\ d = 2 => vs[3] = <<1, 1, 0, 0>>
        /\ d = 3 => vs[5] = <<1, -1, 1, 0>>

\* a frame of the cube has been drawn, vertex 5 of it at (1,-1,1,0)
C2_Witness == Drawn(3) /\ frame.verts[5].vert = <<1, -1, 1, 0>>

\* the faces yielded, each as the set of its four vertex indices
FaceSets == [k \in 1..Len(frame.faces) |-> SeqToSet(frame.faces[k])]

\* C3 (amended): faces() yields exactly 6 faces in a frame drawn in
\* dimension 3 and exactly 24 in dimension 4, and no face, as a set of four
\* vertex indices, is yielded twice.
C3_FaceCounts ==
  /\ Drawn(3) => Len(frame.faces) = 6
  /\ Drawn(4) => Len(frame.faces) = 24
  /\ \A d \in Dims : Drawn(d) =>
       /\ \A k \in 1..Len(frame.faces) : Cardinality(FaceSets[k]) = 4
       /\ \A k, m \in 1..Len(frame.faces) : FaceSets[k] = FaceSets[m] => k = m

\* a frame of the cube has been drawn, with its 6 faces
C3_Witness == Drawn(3) /\ Len(frame.faces) = 6

\* C3 as stated: 3 faces in dimension 3 and 24 in dimension 4, none twice
C3_AsStated ==
  /\ Drawn(3) => Len(frame.faces) = 3
  /\ Drawn(4) => Len(frame.faces) = 24
  /\ \A d \in Dims : Drawn(d) =>
       \A k, m \in 1..Len(frame.faces) : FaceSets[k] = FaceSets[m] => k = m

\* C4 as stated: for every axis pair, rotate applies one and the same
\* rotateSpeed entry to that plane in every frame of the session in which the
\* plane is turned, whatever the dimensions of the frames.
C4_AsStated == \A p \in Planes : Cardinality(applied[p]) <= 1

\* the axis pairs i < j < d
PairsBelow(d) == {p \in (0..(d - 1)) \X (0..(d - 1)) : p[1] < p[2]}

\* C5: in every frame drawn in a dimension d of {2, 3, 4}, each call of
\* rotate applies exactly numRots(d) = d(d-1)/2 plane rotations (1, 3, 6),
\* one for each axis pair i < j < d in row-major order, and reads rotateSpeed
\* at the indices 0..numRots(d)-1 in that order, each once; every index read
\* is below 6 and was written by the load script.
C5_RotationsExact ==
  \A d \in Dims : Drawn(d) =>
    \A v \in DOMAIN frame.verts :
      LET log == frame.verts[v].log
      IN  /\ numRots(d) = (d * (d - 1)) \div 2
          /\ numRots(d) = <<1, 3, 6>>[d - 1]
          /\ Len(log) = numRots(d)
          /\ {<<log[k].i, log[k].j>> : k \in 1..Len(log)} = PairsBelow(d)
          /\ \A k \in 1..(Len(log) - 1) :
               \/ log[k].i < log[k + 1].i
               \/ log[k].i = log[k + 1].i /\ log[k].j < log[k + 1].j
          /\ \A k \in 1..Len(log) :
               /\ log[k].rotIndex = k - 1
               /\ log[k].rotIndex < 6
               /\ log[k].rotIndex + 1 \in DOMAIN rotateSpeed

\* a frame of the tesseract has been drawn after the clock has advanced, its
\* vertices turned in six planes
C5_Witness == Drawn(4) /\ t > 0 /\ Len(frame.verts[0].log) = 6

\* C6 as stated: once the load script has run, whatever was persisted at the
\* start and whatever events followed, state.numDims is one of 2, 3, 4 and
\* localStorage.numDims denotes the same value.
C6_AsStated ==
  pc = "run" =>
    /\ numDims \in {2, 3, 4}
    /\ storage.has
    /\ parseInt(storage.val) = I(numDims)

\* C7 as stated: once a frame callback has run, state.t is the timestamp of
\* the last callback minus the timestamp of the first.
C7_AsStated == firstTime # NoTime => t = lastTime - firstTime

\* C8 as stated: for every sub-segment shaded, the first of a session and
\* those of dimension 2 included, the opacity lies in [0.1, 0.7] and the
\* thickness in [2, 3], and mapRange is not evaluated with oldmin = oldmax.
C8_AsStated ==
  \A k \in 1..Len(frame.samples) :
    LET s == frame.samples[k]
    IN  /\ Le(Q(1, 10), s.opacity) /\ Le(s.opacity, Q(7, 10))
        /\ Le(I(2), s.thickness) /\ Le(s.thickness, I(3))
        /\ s.max # s.min

\* C9: in every frame drawn in a dimension d below 4, rotate leaves every
\* axis k >= d of every vertex at 0, so the w that toSpace divides by is
\* exactly 5; in dimension 2 the z that enters toSpace is 5 and the z that
\* toPlane divides by is 2; in no dimension is a divisor 0 or a projected
\* coordinate not finite.
C9_UnusedAxes ==
  \A d \in Dims : Drawn(d) =>
    \A i \in DOMAIN frame.verts :
      LET p == frame.verts[i]
      IN  /\ \A k \in d..(maxDims - 1) : p.rotated[k + 1] = I(0)
          /\ d < 4 => p.translated[4] = I(5)
          /\ d = 2 => p.translated[3] = I(5) /\ p.space[3] = I(2)
          /\ IsFinite(p.translated[4]) /\ p.translated[4].n # 0
          /\ IsFinite(p.space[3]) /\ p.space[3].n # 0
          /\ \A k \in 1..3 : IsFinite(p.space[k])
          /\ \A k \in 1..2 : IsFinite(p.plane[k])

\* a frame of the square has been drawn with its vertices turned off their
\* starting places, and vertex 0 of it projected from z = 5
C9_Witness ==
  /\ Drawn(2)
  /\ frame.verts[0].rotated # [k \in 1..maxDims |-> I(frame.verts[0].vert[k])]
  /\ frame.verts[0].translated[3] = I(5)

\* what C10 requires of one step of the session
C10_Step ==
  /\ \A d \in Dims :
       /\ (zRange'[d].min = Undefined) = (zRange'[d].max = Undefined)
       /\ zRange'[d].min # Undefined => Le(zRange'[d].min, zRange'[d].max)
       /\ zRange[d].min # Undefined =>
            /\ zRange'[d].min # Undefined
            /\ Le(zRange'[d].min, zRange[d].min)
            /\ Le(zRange[d].max, zRange'[d].max)
       /\ zRange'[d] # zRange[d] => d = numDims'
  /\ \A k \in 1..Len(frame'.samples) :
       LET s == frame'.samples[k]
       IN  /\ Le(s.min, s.z) /\ Le(s.z, s.max)
           /\ k > 1 => /\ Le(s.min, frame'.samples[k - 1].min)
                       /\ Le(frame'.samples[k - 1].max, s.max)

\* C10: for each dimension d, zRange[d] has min <= max once populated; its
\* min never increases and its max never decreases, from step to step and
\* from one depth to the next within a frame; every depth passed to zDepth
\* lies in [min, max] of the range as updated by that call; and a frame or a
\* dimension change leaves zRange[d'] as it was for every d' other than the
\* current dimension.
C10_RangesMonotone == [][C10_Step]_vars

\* frames have been drawn in dimensions 3 and 4: both ranges are populated,
\* each wider than a point, and they differ
C10_Witness ==
  /\ zRange[3].min # Undefined /\ zRange[3].min # zRange[3].max
  /\ zRange[4].min # Undefined /\ zRange[4].min # zRange[4].max
  /\ zRange[3] # zRange[4]
  /\ zRange[2].min = Undefined

===========================================================================
